---- MODULE Spec2Model ----
(***************************************************************************)
(* Model of the tracel-xtask `test` and `vulnerabilities` commands.        *)
(*                                                                         *)
(*   commands/test.rs             handle_command, check_environment,       *)
(*                                push_optional_args, run_unit,            *)
(*                                run_unit_test, run_integration,          *)
(*                                run_integration_test                     *)
(*   commands/vulnerabilities.rs  handle_command, VulnerabilitiesSub-      *)
(*                                Command::run, run_cargo_careful,         *)
(*                                Sanitizer, Target                        *)
(*                                                                         *)
(* The control flow is a call stack of frames; every external effect      *)
(* (member discovery, process invocation, toolchain queries, diagnostics)  *)
(* is appended to `log`.  Rust strings are TLA+ strings, Option<T> is a    *)
(* sequence of length at most one, Vec<T> is a sequence.                   *)
(***************************************************************************)
EXTENDS Integers, Sequences, FiniteSets, TLC

VARIABLES
    stack,   \* call stack, the running function is the last frame
    ret,     \* value returned by the frame that was popped last
    log,     \* external effects, in the order they happened
    status,  \* "idle", "running", "Ok", "Err" or "Exit1" (std::process::exit(1))
    world,   \* what the external collaborators answer during this invocation
    probe    \* last application of a pure function: its inputs and its output

vars == <<stack, ret, log, status, world, probe>>

----------------------------------------------------------------------------
(* Bounds of the model *)

\* longest list of workspace members of one kind
MaxMembers == 2
\* longest list of installed targets given to is_target_supported
MaxInstalled == 2
\* largest jobs / threads count given to push_optional_args
MaxCount == 4
\* longest features list given to push_optional_args
MaxFeatures == 2

----------------------------------------------------------------------------
(* Option<T> and small helpers *)

None == <<>>

Some(x) == <<x>>

IsSome(o) == Len(o) = 1

Contains(list, x) == \E i \in 1..Len(list) : list[i] = x

\* all sequences without repetition over S, of length at most n
RECURSIVE DistinctSeqs(_, _)
DistinctSeqs(S, n) ==
    IF n = 0 THEN {<<>>}
    ELSE {<<>>} \cup UNION {{<<x>> \o s : s \in DistinctSeqs(S \ {x}, n - 1)} : x \in S}

\* all sequences over S of length at most n
RECURSIVE SeqsUpTo(_, _)
SeqsUpTo(S, n) ==
    IF n = 0 THEN {<<>>}
    ELSE LET shorter == SeqsUpTo(S, n - 1)
         IN  shorter \cup {Append(s, x) : s \in {t \in shorter : Len(t) = n - 1}, x \in S}

\* [String]::join
RECURSIVE Join(_, _)
Join(list, sep) ==
    IF list = <<>> THEN ""
    ELSE IF Len(list) = 1 THEN list[1]
    ELSE list[1] \o sep \o Join(Tail(list), sep)

----------------------------------------------------------------------------
(* commands/test.rs : data *)

\* prelude::Environment
Environments == {"Development", "Staging", "Production"}

\* strum iteration order of TestSubCommand
TestSubCommandIter == <<"Unit", "Integration", "All">>

\* strum iteration order of commands::Target
TargetIter == <<"AllPackages", "Crates", "Examples", "Workspace">>

\* TestCmdArgs::get_command
get_command(args) == args.command[1]

\* names the discovery collaborator may report, per member kind
CrateNames == {"core", "io", "net"}

ExampleNames == {"demo"}

\* values given on the command line for --exclude and --only
FilterLists == {<<>>, <<"io">>, <<"core", "demo">>}

\* values given on the command line for the remaining options
OptionProfiles ==
    { [threads |-> None, test |-> None, jobs |-> None, features |-> None,
       no_default_features |-> FALSE, no_capture |-> FALSE],
      [threads |-> Some(2), test |-> Some("smoke"), jobs |-> Some(4),
       features |-> Some(<<"std", "cli">>),
       no_default_features |-> TRUE, no_capture |-> TRUE] }

\* struct TestCmdArgs, as the declare_command_args macro fills it
TestCmdArgs(command, target, exclude, only, force, opt) ==
    [command |-> Some(command), target |-> target, exclude |-> exclude,
     only |-> only, threads |-> opt.threads, test |-> opt.test,
     jobs |-> opt.jobs, force |-> force, features |-> opt.features,
     no_default_features |-> opt.no_default_features,
     no_capture |-> opt.no_capture]

----------------------------------------------------------------------------
(* commands/test.rs : pure functions *)

\* check_environment with the test of `force` inverted
check_environment_inverted(args, env) ==
    IF env = "Production"
    THEN IF ~args.force THEN TRUE ELSE FALSE
    ELSE TRUE

\* check_environment without the `force` override
check_environment_no_force(args, env) ==
    IF env = "Production" THEN FALSE ELSE TRUE

\* check_environment: true if the environment is OK
check_environment(args, env) ==
    IF env = "Production"
    THEN IF args.force THEN TRUE ELSE FALSE
    ELSE TRUE

\* the diagnostic check_environment emits, "" when it emits none
check_environment_message(args, env) ==
    IF env = "Production"
    THEN IF args.force THEN "warn" ELSE "info"
    ELSE ""

\* u16 / usize to_string
NumToString(n) == ToString(n)

\* push_optional_args without the test for an empty features list
push_optional_args_empty_features(cmd_args, args) ==
    LET a1 == IF IsSome(args.jobs)
              THEN cmd_args \o <<"--jobs", NumToString(args.jobs[1])>>
              ELSE cmd_args
        a2 == IF IsSome(args.features)
              THEN a1 \o <<"--features", Join(args.features[1], ",")>>
              ELSE a1
        a3 == IF args.no_default_features
              THEN Append(a2, "--no-default-features")
              ELSE a2
        a4 == a3 \o <<"--", "--color=always">>
        a5 == IF IsSome(args.threads)
              THEN a4 \o <<"--test-threads", NumToString(args.threads[1])>>
              ELSE a4
    IN  IF args.no_capture THEN Append(a5, "--nocapture") ELSE a5

\* push_optional_args: the value of cmd_args after the call
push_optional_args(cmd_args, args) ==
    LET a1 == IF IsSome(args.jobs)
              THEN cmd_args \o <<"--jobs", NumToString(args.jobs[1])>>
              ELSE cmd_args
        a2 == IF IsSome(args.features) /\ args.features[1] # <<>>
              THEN a1 \o <<"--features", Join(args.features[1], ",")>>
              ELSE a1
        a3 == IF args.no_default_features
              THEN Append(a2, "--no-default-features")
              ELSE a2
        a4 == a3 \o <<"--", "--color=always">>
        a5 == IF IsSome(args.threads)
              THEN a4 \o <<"--test-threads", NumToString(args.threads[1])>>
              ELSE a4
    IN  IF args.no_capture THEN Append(a5, "--nocapture") ELSE a5

\* Option<String>::as_deref().unwrap_or(default)
unwrap_or(opt, default) == IF IsSome(opt) THEN opt[1] ELSE default

\* the cmd_args run_unit / run_integration build for Target::Workspace
workspace_cmd_args(fn, args) ==
    IF fn = "run_unit"
    THEN push_optional_args(
            <<"test", "--workspace", "--lib", "--bins", "--examples",
              unwrap_or(args.test, ""), "--color", "always">>, args)
    ELSE push_optional_args(
            <<"test", "--workspace", "--test", unwrap_or(args.test, "*"),
              "--color", "always">>, args)

\* the cmd_args run_unit_test / run_integration_test build for a member
member_cmd_args(fn, name, args) ==
    IF fn = "run_unit_test"
    THEN push_optional_args(
            <<"test", unwrap_or(args.test, ""), "--lib", "--bins",
              "--examples", "-p", name, "--color=always">>, args)
    ELSE push_optional_args(
            <<"test", "--test", "*", "-p", name, "--color", "always">>, args)

\* the sub-commands handle_command re-enters for TestSubCommand::All
all_subcommands ==
    SelectSeq(TestSubCommandIter, LAMBDA c : c # "All")

\* the arguments handle_command builds for sub-command c of All
subcommand_args(args, c) ==
    [command |-> Some(c), target |-> args.target, exclude |-> args.exclude,
     only |-> args.only, threads |-> args.threads, test |-> args.test,
     jobs |-> args.jobs, force |-> args.force, features |-> args.features,
     no_default_features |-> args.no_default_features,
     no_capture |-> args.no_capture]

\* the expansion of Target::AllPackages without the test for Workspace
all_packages_targets_with_workspace ==
    SelectSeq(TargetIter, LAMBDA t : t # "AllPackages")

\* the targets run_unit / run_integration expand Target::AllPackages into
all_packages_targets ==
    SelectSeq(TargetIter, LAMBDA t : t # "AllPackages" /\ t # "Workspace")

\* WorkspaceMemberType asked of get_workspace_members for a target
member_type(target) == IF target = "Crates" THEN "Crate" ELSE "Example"

\* utils::workspace::get_workspace_members
get_workspace_members(kind) ==
    IF kind = "Crate" THEN world.crates ELSE world.examples

\* utils::process::run_process_for_package: true when the package is skipped
package_is_skipped(package, excluded, only) ==
    Contains(excluded, package) \/ (only # <<>> /\ ~Contains(only, package))

----------------------------------------------------------------------------
(* call stack *)

Top == stack[Len(stack)]

Running(fn, pc) ==
    /\ status = "running"
    /\ stack # <<>>
    /\ Top.fn = fn
    /\ Top.pc = pc

Pop == SubSeq(stack, 1, Len(stack) - 1)

ReplaceTop(frame) == Append(Pop, frame)

\* the frame returns r to its caller; the outermost return ends the command
Return(r) ==
    /\ stack' = Pop
    /\ ret' = r
    /\ status' = IF Len(stack) = 1 THEN r ELSE status

HandleCommandFrame(args, env) ==
    [fn |-> "handle_command", pc |-> "enter", args |-> args, env |-> env,
     todo |-> <<>>]

RunFrame(fn, target, args) ==
    [fn |-> fn, pc |-> "match", target |-> target, args |-> args,
     todo |-> <<>>]

MemberFrame(fn, member, args) ==
    [fn |-> fn, pc |-> "call", member |-> member, args |-> args]

Depth == Len(stack)

----------------------------------------------------------------------------
(* commands/test.rs : the command, one action per step of the code *)

\* what the collaborators answer while a test command runs
TestWorld(crates, examples) ==
    [crates |-> crates, examples |-> examples, nightly |-> FALSE,
     installed |-> <<>>]

\* main calls handle_command(args, env, ctx) of the test command
InvokeTest ==
    /\ status = "idle"
    /\ \E command \in {"Unit", "Integration", "All"},
          target \in {"Workspace", "Crates", "Examples", "AllPackages"},
          exclude \in FilterLists, only \in FilterLists,
          force \in BOOLEAN, opt \in OptionProfiles,
          env \in Environments,
          crates \in DistinctSeqs(CrateNames, MaxMembers),
          examples \in DistinctSeqs(ExampleNames, MaxMembers) :
            /\ stack' = <<HandleCommandFrame(
                            TestCmdArgs(command, target, exclude, only, force, opt),
                            env)>>
            /\ world' = TestWorld(crates, examples)
    /\ status' = "running"
    /\ ret' = "None"
    /\ UNCHANGED <<log, probe>>

\* handle_command evaluating the environment gate in the outermost call only
HandleCommandEnter_GateOnce ==
    /\ Running("handle_command", "enter")
    /\ LET f == Top
           allowed == Depth > 1 \/ check_environment(f.args, f.env)
           entered == <<[ev |-> "handle_command", args |-> f.args,
                         env |-> f.env, depth |-> Depth]>>
           warned == IF f.args.target = "Workspace" /\ f.args.only # <<>>
                     THEN <<[ev |-> "warn_ignored_only", depth |-> Depth]>>
                     ELSE <<>>
           checked == IF Depth > 1 THEN <<>>
                      ELSE <<[ev |-> "check_environment", env |-> f.env,
                              force |-> f.args.force, result |-> allowed,
                              message |-> check_environment_message(f.args, f.env),
                              depth |-> Depth]>>
       IN  /\ log' = log \o entered \o warned \o checked
           /\ IF allowed
              THEN /\ stack' = ReplaceTop([f EXCEPT !.pc = "match"])
                   /\ UNCHANGED status
              ELSE /\ stack' = <<>>
                   /\ status' = "Exit1"
    /\ UNCHANGED <<ret, world, probe>>

\* handle_command, lines 20-25: the warning and the environment gate
HandleCommandEnter ==
    /\ Running("handle_command", "enter")
    /\ LET f == Top
           allowed == check_environment(f.args, f.env)
           entered == <<[ev |-> "handle_command", args |-> f.args,
                         env |-> f.env, depth |-> Depth]>>
           warned == IF f.args.target = "Workspace" /\ f.args.only # <<>>
                     THEN <<[ev |-> "warn_ignored_only", depth |-> Depth]>>
                     ELSE <<>>
           checked == <<[ev |-> "check_environment", env |-> f.env,
                         force |-> f.args.force, result |-> allowed,
                         message |-> check_environment_message(f.args, f.env),
                         depth |-> Depth]>>
       IN  /\ log' = log \o entered \o warned \o checked
           /\ IF allowed
              THEN /\ stack' = ReplaceTop([f EXCEPT !.pc = "match"])
                   /\ UNCHANGED status
              ELSE \* std::process::exit(1)
                   /\ stack' = <<>>
                   /\ status' = "Exit1"
    /\ UNCHANGED <<ret, world, probe>>

\* handle_command, lines 26-50: match args.get_command()
HandleCommandMatch ==
    /\ Running("handle_command", "match")
    /\ LET f == Top
           c == get_command(f.args)
       IN  IF c = "Unit"
           THEN stack' = Append(ReplaceTop([f EXCEPT !.pc = "tail"]),
                                RunFrame("run_unit", f.args.target, f.args))
           ELSE IF c = "Integration"
           THEN stack' = Append(ReplaceTop([f EXCEPT !.pc = "tail"]),
                                RunFrame("run_integration", f.args.target, f.args))
           ELSE stack' = ReplaceTop([f EXCEPT !.pc = "all",
                                              !.todo = all_subcommands])
    /\ ret' = "None"
    /\ UNCHANGED <<log, status, world, probe>>

\* handle_command returns what run_unit / run_integration returned
HandleCommandTail ==
    /\ Running("handle_command", "tail")
    /\ Return(ret)
    /\ UNCHANGED <<log, world, probe>>

\* handle_command running every sub-command of All whatever the earlier ones
\* returned (for_each in place of try_for_each)
HandleCommandAll_KeepGoing ==
    /\ Running("handle_command", "all")
    /\ LET f == Top
       IN  IF f.todo = <<>>
           THEN Return(IF ret = "None" THEN "Ok" ELSE ret)
           ELSE /\ stack' = Append(ReplaceTop([f EXCEPT !.todo = Tail(f.todo)]),
                                   HandleCommandFrame(
                                       subcommand_args(f.args, Head(f.todo)),
                                       f.env))
                /\ ret' = "None"
                /\ UNCHANGED status
    /\ UNCHANGED <<log, world, probe>>

\* handle_command, lines 29-49: one round of try_for_each over the sub-commands
HandleCommandAll ==
    /\ Running("handle_command", "all")
    /\ LET f == Top
       IN  IF ret = "Err"
           THEN Return("Err")
           ELSE IF f.todo = <<>>
           THEN Return("Ok")
           ELSE /\ stack' = Append(ReplaceTop([f EXCEPT !.todo = Tail(f.todo)]),
                                   HandleCommandFrame(
                                       subcommand_args(f.args, Head(f.todo)),
                                       f.env))
                /\ ret' = "None"
                /\ UNCHANGED status
    /\ UNCHANGED <<log, world, probe>>

\* run_unit / run_integration: match target
RunMatch(fn) ==
    /\ Running(fn, "match")
    /\ LET f == Top
           entered == <<[ev |-> "run", fn |-> fn, target |-> f.target,
                         depth |-> Depth]>>
       IN  IF f.target = "Workspace"
           THEN \E ok \in BOOLEAN :
                   /\ log' = log \o entered \o
                             <<[ev |-> "run_process_for_workspace", fn |-> fn,
                                cmd_args |-> workspace_cmd_args(fn, f.args),
                                excluded |-> f.args.exclude, ok |-> ok]>>
                   /\ Return(IF ok THEN "Ok" ELSE "Err")
           ELSE IF f.target \in {"Crates", "Examples"}
           THEN LET members == get_workspace_members(member_type(f.target))
                IN  /\ log' = log \o entered \o
                              <<[ev |-> "get_workspace_members", fn |-> fn,
                                 kind |-> member_type(f.target),
                                 members |-> members]>>
                    /\ stack' = ReplaceTop([f EXCEPT !.pc = "members",
                                                     !.todo = members])
                    /\ ret' = "None"
                    /\ UNCHANGED status
           ELSE /\ log' = log \o entered
                /\ stack' = ReplaceTop([f EXCEPT !.pc = "targets",
                                                 !.todo = all_packages_targets])
                /\ ret' = "None"
                /\ UNCHANGED status
    /\ UNCHANGED <<world, probe>>

\* run_unit / run_integration going on to the next member after a failure
\* and reporting the failure at the end of the loop
RunMembers_NoFailFast(fn) ==
    /\ Running(fn, "members")
    /\ LET f == Top
           runner == IF fn = "run_unit" THEN "run_unit_test"
                                        ELSE "run_integration_test"
       IN  IF f.todo = <<>>
           THEN Return(IF ret = "Err" THEN "Err" ELSE "Ok") /\ UNCHANGED log
           ELSE /\ stack' = Append(ReplaceTop([f EXCEPT !.todo = Tail(f.todo)]),
                                   MemberFrame(runner, Head(f.todo), f.args))
                /\ log' = Append(log, [ev |-> "member_call", fn |-> runner,
                                       member |-> Head(f.todo),
                                       exclude |-> f.args.exclude,
                                       only |-> f.args.only])
                /\ ret' = "None"
                /\ UNCHANGED status
    /\ UNCHANGED <<world, probe>>

\* run_unit / run_integration dropping the excluded members before the call
\* of the per-member runner
RunMembers_FilterEarly(fn) ==
    /\ Running(fn, "members")
    /\ LET f == Top
           runner == IF fn = "run_unit" THEN "run_unit_test"
                                        ELSE "run_integration_test"
       IN  IF ret = "Err"
           THEN Return("Err") /\ UNCHANGED log
           ELSE IF f.todo = <<>>
           THEN Return("Ok") /\ UNCHANGED log
           ELSE IF Contains(f.args.exclude, Head(f.todo))
           THEN /\ stack' = ReplaceTop([f EXCEPT !.todo = Tail(f.todo)])
                /\ UNCHANGED <<log, ret, status>>
           ELSE /\ stack' = Append(ReplaceTop([f EXCEPT !.todo = Tail(f.todo)]),
                                   MemberFrame(runner, Head(f.todo), f.args))
                /\ log' = Append(log, [ev |-> "member_call", fn |-> runner,
                                       member |-> Head(f.todo),
                                       exclude |-> f.args.exclude,
                                       only |-> f.args.only])
                /\ ret' = "None"
                /\ UNCHANGED status
    /\ UNCHANGED <<world, probe>>

\* run_unit / run_integration: one round of `for member in members { ..? }`
RunMembers(fn) ==
    /\ Running(fn, "members")
    /\ LET f == Top
           runner == IF fn = "run_unit" THEN "run_unit_test"
                                        ELSE "run_integration_test"
       IN  IF ret = "Err"
           THEN Return("Err") /\ UNCHANGED log
           ELSE IF f.todo = <<>>
           THEN Return("Ok") /\ UNCHANGED log
           ELSE /\ stack' = Append(ReplaceTop([f EXCEPT !.todo = Tail(f.todo)]),
                                   MemberFrame(runner, Head(f.todo), f.args))
                /\ log' = Append(log, [ev |-> "member_call", fn |-> runner,
                                       member |-> Head(f.todo),
                                       exclude |-> f.args.exclude,
                                       only |-> f.args.only])
                /\ ret' = "None"
                /\ UNCHANGED status
    /\ UNCHANGED <<world, probe>>

\* run_unit / run_integration: one round of try_for_each over the targets
RunTargets(fn) ==
    /\ Running(fn, "targets")
    /\ LET f == Top
       IN  IF ret = "Err"
           THEN Return("Err")
           ELSE IF f.todo = <<>>
           THEN Return("Ok")
           ELSE /\ stack' = Append(ReplaceTop([f EXCEPT !.todo = Tail(f.todo)]),
                                   RunFrame(fn, Head(f.todo), f.args))
                /\ ret' = "None"
                /\ UNCHANGED status
    /\ UNCHANGED <<log, world, probe>>

\* run_unit_test / run_integration_test, with run_process_for_package
RunMember(fn) ==
    /\ Running(fn, "call")
    /\ LET f == Top
           cmd_args == member_cmd_args(fn, f.member, f.args)
           called == <<[ev |-> "run_process_for_package", fn |-> fn,
                        package |-> f.member, cmd_args |-> cmd_args,
                        excluded |-> f.args.exclude, only |-> f.args.only]>>
       IN  IF package_is_skipped(f.member, f.args.exclude, f.args.only)
           THEN /\ log' = log \o called
                /\ Return("Ok")
           ELSE \E ok \in BOOLEAN :
                   /\ log' = log \o called \o
                             <<[ev |-> "process", fn |-> fn,
                                package |-> f.member, cmd_args |-> cmd_args,
                                ok |-> ok]>>
                   /\ Return(IF ok THEN "Ok" ELSE "Err")
    /\ UNCHANGED <<world, probe>>

TestNext ==
    \/ InvokeTest
    \/ HandleCommandEnter
    \/ HandleCommandMatch
    \/ HandleCommandTail
    \/ HandleCommandAll
    \/ \E fn \in {"run_unit", "run_integration"} : RunMatch(fn)
    \/ \E fn \in {"run_unit", "run_integration"} : RunMembers(fn)
    \/ \E fn \in {"run_unit", "run_integration"} : RunTargets(fn)
    \/ \E fn \in {"run_unit_test", "run_integration_test"} : RunMember(fn)

----------------------------------------------------------------------------
(* commands/vulnerabilities.rs : Target *)

AARCH64_APPLE_DARWIN == "aarch64-apple-darwin"

AARCH64_LINUX_ANDROID == "aarch64-linux-android"

AARCH64_UNKNOWN_FUCHSIA == "aarch64-unknown-fuchsia"

AARCH64_UNKNOWN_LINUX_GNU == "aarch64-unknown-linux-gnu"

X8664_APPLE_DARWIN == "x86_64-apple-darwin"

X8664_LINUX_ANDROID == "x86_64-linux-android"

X8664_UNKNOWN_FUCHSIA == "x86_64-unknown-fuchsia"

X8664_UNKNOWN_FREEBSD == "x86_64-unknown-freebsd"

X8664_UNKNOWN_LINUX_GNU == "x86_64-unknown-linux-gnu"

\* enum Target without its Unknown variant
NamedTargets ==
    {"Aarch64AppleDarwin", "Aarch64LinuxAndroid", "Aarch64UnknownFuchsia",
     "Aarch64UnknownLinuxGnu", "X8664AppleDarwin", "X8664LinuxAndroid",
     "X8664UnknownFuchsia", "X8664UnknownFreebsd", "X8664UnknownLinuxGnu"}

\* enum Target
Targets == NamedTargets \cup {"Unknown"}

\* Target::from_str
from_str(s) ==
    CASE s = AARCH64_APPLE_DARWIN -> Some("Aarch64AppleDarwin")
      [] s = AARCH64_LINUX_ANDROID -> Some("Aarch64LinuxAndroid")
      [] s = AARCH64_UNKNOWN_FUCHSIA -> Some("Aarch64UnknownFuchsia")
      [] s = AARCH64_UNKNOWN_LINUX_GNU -> Some("Aarch64UnknownLinuxGnu")
      [] s = X8664_APPLE_DARWIN -> Some("X8664AppleDarwin")
      [] s = X8664_LINUX_ANDROID -> Some("X8664LinuxAndroid")
      [] s = X8664_UNKNOWN_FUCHSIA -> Some("X8664UnknownFuchsia")
      [] s = X8664_UNKNOWN_FREEBSD -> Some("X8664UnknownFreebsd")
      [] s = X8664_UNKNOWN_LINUX_GNU -> Some("X8664UnknownLinuxGnu")
      [] OTHER -> None

\* Display for Target with the constant of one arm taken from another arm
target_to_string_wrong_arm(t) ==
    CASE t = "Aarch64AppleDarwin" -> AARCH64_APPLE_DARWIN
      [] t = "Aarch64LinuxAndroid" -> AARCH64_LINUX_ANDROID
      [] t = "Aarch64UnknownFuchsia" -> AARCH64_UNKNOWN_FUCHSIA
      [] t = "Aarch64UnknownLinuxGnu" -> AARCH64_UNKNOWN_LINUX_GNU
      [] t = "X8664AppleDarwin" -> X8664_APPLE_DARWIN
      [] t = "X8664LinuxAndroid" -> AARCH64_LINUX_ANDROID
      [] t = "X8664UnknownFuchsia" -> X8664_UNKNOWN_FUCHSIA
      [] t = "X8664UnknownFreebsd" -> X8664_UNKNOWN_FREEBSD
      [] t = "X8664UnknownLinuxGnu" -> X8664_UNKNOWN_LINUX_GNU
      [] t = "Unknown" -> ""

\* impl Display for Target
target_to_string(t) ==
    CASE t = "Aarch64AppleDarwin" -> AARCH64_APPLE_DARWIN
      [] t = "Aarch64LinuxAndroid" -> AARCH64_LINUX_ANDROID
      [] t = "Aarch64UnknownFuchsia" -> AARCH64_UNKNOWN_FUCHSIA
      [] t = "Aarch64UnknownLinuxGnu" -> AARCH64_UNKNOWN_LINUX_GNU
      [] t = "X8664AppleDarwin" -> X8664_APPLE_DARWIN
      [] t = "X8664LinuxAndroid" -> X8664_LINUX_ANDROID
      [] t = "X8664UnknownFuchsia" -> X8664_UNKNOWN_FUCHSIA
      [] t = "X8664UnknownFreebsd" -> X8664_UNKNOWN_FREEBSD
      [] t = "X8664UnknownLinuxGnu" -> X8664_UNKNOWN_LINUX_GNU
      [] t = "Unknown" -> ""

\* char::is_whitespace, on the characters the model uses
is_whitespace(c) == c \in {" ", "\t", "\n", "\r"}

\* str::trim_start
RECURSIVE trim_start(_)
trim_start(s) ==
    IF Len(s) > 0 /\ is_whitespace(SubSeq(s, 1, 1))
    THEN trim_start(SubSeq(s, 2, Len(s)))
    ELSE s

\* str::trim_end
RECURSIVE trim_end(_)
trim_end(s) ==
    IF Len(s) > 0 /\ is_whitespace(SubSeq(s, Len(s), Len(s)))
    THEN trim_end(SubSeq(s, 1, Len(s) - 1))
    ELSE s

\* str::trim
trim(s) == trim_end(trim_start(s))

----------------------------------------------------------------------------
(* commands/vulnerabilities.rs : Sanitizer *)

\* enum Sanitizer
Sanitizers ==
    {"Address", "CFI", "HWAddress", "KCFI", "Leak", "Memory", "MemTag",
     "SafeStack", "ShadowCallStack", "Thread"}

\* Sanitizer::DEFAULT_RUSTFLAGS
DEFAULT_RUSTFLAGS == "-Copt-level=3"

\* Sanitizer::flags
flags(s) ==
    CASE s = "Address" -> "-Zsanitizer=address"
      [] s = "CFI" -> "-Zsanitizer=cfi -Clto"
      [] s = "HWAddress" -> "-Zsanitizer=hwaddress -Ctarget-feature=+tagged-globals"
      [] s = "KCFI" -> "-Zsanitizer=kcfi"
      [] s = "Leak" -> "-Zsanitizer=leak"
      [] s = "Memory" -> "-Zsanitizer=memory -Zsanitizer-memory-track-origins"
      [] s = "MemTag" -> "--Zsanitizer=memtag -Ctarget-feature=\"+mte\""
      [] s = "SafeStack" -> "-Zsanitizer=safestack"
      [] s = "ShadowCallStack" -> "-Zsanitizer=shadow-call-stack"
      [] s = "Thread" -> "-Zsanitizer=thread"

\* Sanitizer::cargo_features
cargo_features(s) ==
    IF s = "CFI" THEN <<"-Zbuild-std", "--target x86_64-unknown-linux-gnu">>
    ELSE <<>>

\* Sanitizer::supported_targets
supported_targets(s) ==
    CASE s = "Address" ->
            <<"Aarch64AppleDarwin", "Aarch64UnknownFuchsia",
              "Aarch64UnknownLinuxGnu", "X8664AppleDarwin",
              "X8664UnknownFuchsia", "X8664UnknownFreebsd",
              "X8664UnknownLinuxGnu">>
      [] s = "CFI" -> <<"X8664UnknownLinuxGnu">>
      [] s = "HWAddress" -> <<"Aarch64LinuxAndroid", "Aarch64UnknownLinuxGnu">>
      [] s = "KCFI" ->
            <<"Aarch64LinuxAndroid", "Aarch64UnknownLinuxGnu",
              "X8664LinuxAndroid", "X8664UnknownLinuxGnu">>
      [] s = "Leak" ->
            <<"Aarch64AppleDarwin", "Aarch64UnknownLinuxGnu",
              "X8664AppleDarwin", "X8664UnknownLinuxGnu">>
      [] s = "Memory" ->
            <<"Aarch64UnknownLinuxGnu", "X8664UnknownFreebsd",
              "X8664UnknownLinuxGnu">>
      [] s = "MemTag" -> <<"Aarch64LinuxAndroid", "Aarch64UnknownLinuxGnu">>
      [] s = "SafeStack" -> <<"X8664UnknownLinuxGnu">>
      [] s = "ShadowCallStack" -> <<"Aarch64LinuxAndroid">>
      [] s = "Thread" ->
            <<"Aarch64AppleDarwin", "Aarch64UnknownLinuxGnu",
              "X8664AppleDarwin", "X8664UnknownFreebsd",
              "X8664UnknownLinuxGnu">>

\* Option<Target>::unwrap_or
target_unwrap_or(opt, default) == IF IsSome(opt) THEN opt[1] ELSE default

\* the target is_target_supported reads one installed string as
installed_target(installed) ==
    target_unwrap_or(from_str(trim(installed)), "Unknown")

\* is_target_supported asking that every installed target be supported
\* (Iterator::all in place of Iterator::any)
is_target_supported_all(s, installed_targets) ==
    LET supported == supported_targets(s)
    IN  \A i \in 1..Len(installed_targets) :
            \E j \in 1..Len(supported) :
                supported[j] = installed_target(installed_targets[i])

\* Sanitizer::is_target_supported, given what the retriever returns
is_target_supported(s, installed_targets) ==
    LET supported == supported_targets(s)
    IN  \E i \in 1..Len(installed_targets) :
            \E j \in 1..Len(supported) :
                supported[j] = installed_target(installed_targets[i])

----------------------------------------------------------------------------
(* commands/vulnerabilities.rs : the command *)

\* enum VulnerabilitiesSubCommand
VulnerabilitiesSubCommands ==
    {"NightlyChecks", "AddressSanitizer", "ControlFlowIntegrity",
     "HWAddressSanitizer", "KernelControlFlowIntegrity", "LeakSanitizer",
     "MemorySanitizer", "MemTagSanitizer", "SafeStack", "ShadowCallStack",
     "ThreadSanitizer", "All"}

\* VulnerabilitiesSubCommand::run: the calls each arm makes, in order;
\* "careful" is run_cargo_careful, any other step is that Sanitizer's run_tests
run_steps(c) ==
    CASE c = "NightlyChecks" -> <<"careful">>
      [] c = "AddressSanitizer" -> <<"Address">>
      [] c = "ControlFlowIntegrity" -> <<"CFI">>
      [] c = "HWAddressSanitizer" -> <<"HWAddress">>
      [] c = "KernelControlFlowIntegrity" -> <<"KCFI">>
      [] c = "LeakSanitizer" -> <<"Leak">>
      [] c = "MemorySanitizer" -> <<"Memory">>
      [] c = "MemTagSanitizer" -> <<"MemTag">>
      [] c = "SafeStack" -> <<"SafeStack">>
      [] c = "ShadowCallStack" -> <<"ShadowCallStack">>
      [] c = "ThreadSanitizer" -> <<"Thread">>
      [] c = "All" ->
            <<"careful", "Address", "Leak", "Memory", "SafeStack", "Thread">>

\* utils::rustup::is_current_toolchain_nightly
is_current_toolchain_nightly == world.nightly

\* RustupTargetRetriever::get_installed_targets
get_installed_targets == world.installed

\* the strings rustup may list as installed targets
InstalledStrings ==
    {"", " ", "x86_64-pc-windows-msvc"}
    \cup {target_to_string(t) : t \in NamedTargets}
    \cup {" " \o target_to_string(t) : t \in {"X8664UnknownLinuxGnu"}}
    \cup {target_to_string(t) \o "\t" : t \in {"Aarch64LinuxAndroid"}}

\* the lists of installed targets a vulnerabilities command is run against
InstalledSamples ==
    {<<>>, <<"">>, <<"x86_64-pc-windows-msvc", "x86_64-unknown-linux-gnu">>,
     <<"aarch64-linux-android">>, <<"aarch64-apple-darwin", "wasm32-wasi">>}

\* the steps of run_cargo_careful that call a collaborator, in order
careful_steps ==
    <<"ensure_cargo_crate_is_installed", "rustup_add_component",
      "careful_setup", "careful_test">>

VulnWorld(nightly, installed) ==
    [crates |-> <<>>, examples |-> <<>>, nightly |-> nightly,
     installed |-> installed]

\* main calls handle_command(args, env, ctx) of the vulnerabilities command
InvokeVulnerabilities ==
    /\ status = "idle"
    /\ \E command \in VulnerabilitiesSubCommands, env \in Environments,
          nightly \in BOOLEAN, installed \in InstalledSamples :
            /\ stack' = <<[fn |-> "vulnerabilities::handle_command",
                           pc |-> "enter", command |-> command, env |-> env,
                           todo |-> <<>>]>>
            /\ world' = VulnWorld(nightly, installed)
    /\ status' = "running"
    /\ ret' = "None"
    /\ UNCHANGED <<log, probe>>

\* vulnerabilities::handle_command: args.get_command().run()
VulnHandleCommand ==
    /\ Running("vulnerabilities::handle_command", "enter")
    /\ LET f == Top
       IN  /\ log' = Append(log, [ev |-> "vulnerabilities::handle_command",
                                  command |-> f.command, env |-> f.env])
           /\ stack' = ReplaceTop([f EXCEPT !.pc = "run",
                                            !.todo = run_steps(f.command)])
    /\ UNCHANGED <<ret, status, world, probe>>

\* VulnerabilitiesSubCommand::run without `?` on the calls of the All arm
VulnRun_KeepGoing ==
    /\ Running("vulnerabilities::handle_command", "run")
    /\ LET f == Top
       IN  IF f.todo = <<>>
           THEN Return(IF ret = "None" THEN "Ok" ELSE ret)
           ELSE /\ stack' =
                     Append(ReplaceTop([f EXCEPT !.todo = Tail(f.todo)]),
                            IF Head(f.todo) = "careful"
                            THEN [fn |-> "run_cargo_careful", pc |-> "start",
                                  todo |-> careful_steps]
                            ELSE [fn |-> "run_tests", pc |-> "start",
                                  sanitizer |-> Head(f.todo)])
                /\ ret' = "None"
                /\ UNCHANGED status
    /\ UNCHANGED <<log, world, probe>>

\* VulnerabilitiesSubCommand::run: the next call of the arm, `?` on the last
VulnRun ==
    /\ Running("vulnerabilities::handle_command", "run")
    /\ LET f == Top
       IN  IF ret = "Err"
           THEN Return("Err")
           ELSE IF f.todo = <<>>
           THEN Return("Ok")
           ELSE /\ stack' =
                     Append(ReplaceTop([f EXCEPT !.todo = Tail(f.todo)]),
                            IF Head(f.todo) = "careful"
                            THEN [fn |-> "run_cargo_careful", pc |-> "start",
                                  todo |-> careful_steps]
                            ELSE [fn |-> "run_tests", pc |-> "start",
                                  sanitizer |-> Head(f.todo)])
                /\ ret' = "None"
                /\ UNCHANGED status
    /\ UNCHANGED <<log, world, probe>>

\* run_cargo_careful, lines 58 and 81-84: the nightly test
CarefulStart ==
    /\ Running("run_cargo_careful", "start")
    /\ LET f == Top
           asked == [ev |-> "is_current_toolchain_nightly",
                     who |-> "careful",
                     result |-> is_current_toolchain_nightly]
       IN  IF is_current_toolchain_nightly
           THEN /\ log' = Append(log, asked)
                /\ stack' = ReplaceTop([f EXCEPT !.pc = "steps"])
                /\ UNCHANGED <<ret, status>>
           ELSE /\ log' = log \o <<asked, [ev |-> "CARGO_NIGHTLY_MSG",
                                           who |-> "careful"]>>
                /\ Return("Ok")
    /\ UNCHANGED <<world, probe>>

\* run_cargo_careful, lines 59-80: one collaborator call followed by `?`
CarefulStep ==
    /\ Running("run_cargo_careful", "steps")
    /\ LET f == Top
       IN  IF f.todo = <<>>
           THEN Return("Ok") /\ UNCHANGED log
           ELSE \E ok \in BOOLEAN :
                   /\ log' = Append(log, [ev |-> Head(f.todo),
                                          who |-> "careful", ok |-> ok])
                   /\ IF ok
                      THEN /\ stack' = ReplaceTop([f EXCEPT !.todo = Tail(f.todo)])
                           /\ UNCHANGED <<ret, status>>
                      ELSE Return("Err")
    /\ UNCHANGED <<world, probe>>

\* Sanitizer::run_tests returning an error when the toolchain is not nightly
SanitizerStart_ErrWhenNotNightly ==
    /\ Running("run_tests", "start")
    /\ LET f == Top
           asked == [ev |-> "is_current_toolchain_nightly",
                     who |-> f.sanitizer,
                     result |-> is_current_toolchain_nightly]
       IN  IF is_current_toolchain_nightly
           THEN /\ log' = Append(log, asked)
                /\ stack' = ReplaceTop([f EXCEPT !.pc = "supported"])
                /\ UNCHANGED <<ret, status>>
           ELSE /\ log' = log \o <<asked, [ev |-> "CARGO_NIGHTLY_MSG",
                                           who |-> f.sanitizer]>>
                /\ Return("Err")
    /\ UNCHANGED <<world, probe>>

\* Sanitizer::run_tests, lines 124-125 and 151-154: the nightly test
SanitizerStart ==
    /\ Running("run_tests", "start")
    /\ LET f == Top
           asked == [ev |-> "is_current_toolchain_nightly",
                     who |-> f.sanitizer,
                     result |-> is_current_toolchain_nightly]
       IN  IF is_current_toolchain_nightly
           THEN /\ log' = Append(log, asked)
                /\ stack' = ReplaceTop([f EXCEPT !.pc = "supported"])
                /\ UNCHANGED <<ret, status>>
           ELSE /\ log' = log \o <<asked, [ev |-> "CARGO_NIGHTLY_MSG",
                                           who |-> f.sanitizer]>>
                /\ Return("Ok")
    /\ UNCHANGED <<world, probe>>

\* Sanitizer::run_tests, lines 126-127 and 147-149: is the target supported
SanitizerSupported ==
    /\ Running("run_tests", "supported")
    /\ LET f == Top
           installed == get_installed_targets
           supported == is_target_supported(f.sanitizer, installed)
           asked == [ev |-> "rustup_get_installed_targets",
                     who |-> f.sanitizer, installed |-> installed,
                     supported |-> supported]
       IN  IF supported
           THEN /\ log' = Append(log, asked)
                /\ stack' = ReplaceTop([f EXCEPT !.pc = "test"])
                /\ UNCHANGED <<ret, status>>
           ELSE /\ log' = log \o <<asked, [ev |-> "no_supported_target",
                                           who |-> f.sanitizer]>>
                /\ Return("Ok")
    /\ UNCHANGED <<world, probe>>

\* Sanitizer::run_tests, lines 128-146: the instrumented cargo test
SanitizerTest ==
    /\ Running("run_tests", "test")
    /\ LET f == Top
       IN  \E outcome \in {"success", "failure", "spawn_error"} :
               /\ log' = Append(log,
                     [ev |-> "sanitizer_process", who |-> f.sanitizer,
                      cmd_args |-> <<"test", "--", "--color=always",
                                     "--no-capture">>
                                   \o cargo_features(f.sanitizer),
                      envs |-> <<<<"RUSTFLAGS",
                                   flags(f.sanitizer) \o " " \o DEFAULT_RUSTFLAGS>>,
                                 <<"RUSTDOCFLAGS", flags(f.sanitizer)>>>>,
                      outcome |-> outcome])
               /\ Return(IF outcome = "success" THEN "Ok" ELSE "Err")
    /\ UNCHANGED <<world, probe>>

VulnNext ==
    \/ InvokeVulnerabilities
    \/ VulnHandleCommand
    \/ VulnRun
    \/ CarefulStart
    \/ CarefulStep
    \/ SanitizerStart
    \/ SanitizerSupported
    \/ SanitizerTest

----------------------------------------------------------------------------
(* the pure functions, applied to inputs drawn from bounded sets *)

\* the names given to --features
FeatureNames == {"std", "cli"}

\* the skeletons the callers of push_optional_args start from
Skeletons ==
    {<<>>,
     <<"test", "--workspace", "--test", "*", "--color", "always">>,
     <<"test", "", "--lib", "--bins", "--examples", "-p", "core",
       "--color=always">>}

\* Option<n> for the counts 0..MaxCount
CountOptions == {None} \cup {Some(n) : n \in 0..MaxCount}

\* Option<Vec<String>> for the feature lists of at most MaxFeatures names
FeatureOptions ==
    {None} \cup {Some(f) : f \in SeqsUpTo(FeatureNames, MaxFeatures)}

\* Sanitizer::is_target_supported on a mock retriever, as the unit test does
ProbeIsTargetSupported ==
    /\ probe = [fn |-> "none"]
    /\ \E s \in Sanitizers,
          installed \in SeqsUpTo(InstalledStrings, MaxInstalled) :
            probe' = [fn |-> "is_target_supported", sanitizer |-> s,
                      installed |-> installed,
                      result |-> is_target_supported(s, installed)]
    /\ UNCHANGED <<stack, ret, log, status, world>>

\* format!("{}", variant) followed by Target::from_str, as the unit test does
ProbeRoundTrip ==
    /\ probe = [fn |-> "none"]
    /\ \E t \in Targets :
            probe' = [fn |-> "round_trip", target |-> t,
                      shown |-> target_to_string(t),
                      parsed |-> from_str(target_to_string(t))]
    /\ UNCHANGED <<stack, ret, log, status, world>>

\* push_optional_args on a skeleton and a configuration
ProbePushOptionalArgs ==
    /\ probe = [fn |-> "none"]
    /\ \E skeleton \in Skeletons, jobs \in CountOptions,
          threads \in CountOptions, features \in FeatureOptions,
          no_default_features \in BOOLEAN, no_capture \in BOOLEAN :
            LET args == TestCmdArgs("Unit", "Workspace", <<>>, <<>>, FALSE,
                          [threads |-> threads, test |-> None, jobs |-> jobs,
                           features |-> features,
                           no_default_features |-> no_default_features,
                           no_capture |-> no_capture])
            IN  probe' = [fn |-> "push_optional_args", skeleton |-> skeleton,
                          args |-> args,
                          cmd_args |-> push_optional_args(skeleton, args)]
    /\ UNCHANGED <<stack, ret, log, status, world>>

----------------------------------------------------------------------------
(* specifications *)

IdleWorld == [crates |-> <<>>, examples |-> <<>>, nightly |-> FALSE,
              installed |-> <<>>]

Init ==
    /\ stack = <<>>
    /\ ret = "None"
    /\ log = <<>>
    /\ status = "idle"
    /\ world = IdleWorld
    /\ probe = [fn |-> "none"]

Next == TestNext \/ VulnNext

\* the test and vulnerabilities commands
Spec == Init /\ [][Next]_vars

TargetNext == ProbeIsTargetSupported \/ ProbeRoundTrip

\* Sanitizer::is_target_supported, Target::from_str and Display for Target
SpecTarget == Init /\ [][TargetNext]_vars

ComposeNext == ProbePushOptionalArgs

\* push_optional_args
SpecCompose == Init /\ [][ComposeNext]_vars

----------------------------------------------------------------------------
(* reading the log *)

Events(ev) == SelectSeq(log, LAMBDA e : e.ev = ev)

\* the events of the test command that resolve members or run a process
WorkEvents ==
    {"run", "get_workspace_members", "run_process_for_workspace",
     "member_call", "run_process_for_package", "process"}

\* the test command was invoked and its handle_command has been entered
TestInvoked == log # <<>> /\ log[1].ev = "handle_command"

\* the vulnerabilities command was invoked and its handle_command entered
VulnInvoked == log # <<>> /\ log[1].ev = "vulnerabilities::handle_command"

\* the arguments and environment of the outermost handle_command
TopArgs == log[1].args

TopEnv == log[1].env

TopCommand == TopArgs.command[1]

Finished == status \in {"Ok", "Err", "Exit1"}

\* how often the environment guard predicate was evaluated
GuardCount == Len(Events("check_environment"))

\* s is a prefix of t
IsPrefix(s, t) == Len(s) <= Len(t) /\ SubSeq(t, 1, Len(s)) = s

\* the positions of log holding an event named ev
Positions(ev) == {i \in 1..Len(log) : log[i].ev = ev}

----------------------------------------------------------------------------
(* C1 *)

\* C1: when the test command is invoked in Production without --force, for
\* every sub-command and target, no member discovery and no process
\* invocation ever happens, and the invocation ends in std::process::exit(1).
C1_ProductionGate ==
    (TestInvoked /\ TopEnv = "Production" /\ ~TopArgs.force) =>
        /\ \A i \in 1..Len(log) : log[i].ev \notin WorkEvents
        /\ status = "Exit1"
        /\ stack = <<>>

C1_Witness ==
    /\ TestInvoked
    /\ TopEnv = "Production" /\ ~TopArgs.force
    /\ TopCommand = "All" /\ TopArgs.target = "Crates"
    /\ Len(world.crates) = 2
    /\ status = "Exit1"

----------------------------------------------------------------------------
(* C9 *)

\* C9: check_environment returns false exactly when the environment is
\* Production and force is false; Production with force and every other
\* environment, with or without force, give true.
C9_GuardPredicate ==
    \A i \in Positions("check_environment") :
        /\ (log[i].result = FALSE) <=>
                (log[i].env = "Production" /\ log[i].force = FALSE)
        /\ (log[i].env = "Production" /\ log[i].force) => log[i].result
        /\ log[i].env # "Production" => log[i].result

C9_Witness ==
    /\ \E i \in Positions("check_environment") :
            log[i].env = "Production" /\ log[i].force /\ log[i].result
    /\ status = "Ok"

----------------------------------------------------------------------------
(* C2 *)

\* C2, as claimed: every top-level invocation of the test or vulnerabilities
\* handle_command evaluates the environment guard exactly once.
C2_GuardExactlyOnce ==
    (Finished /\ (TestInvoked \/ VulnInvoked)) => GuardCount = 1

\* C2, amended: the test handle_command evaluates the guard once per entry
\* of handle_command, right after entering and before any resolution or
\* process of that entry: once for Unit and Integration, and for All once
\* in the outermost call and once more in each re-entered sub-command (three
\* times when both run); never per member.  The vulnerabilities
\* handle_command never evaluates it.
C2_GuardPerEntry ==
    /\ TestInvoked =>
        /\ GuardCount = Len(Events("handle_command"))
        /\ \A i \in Positions("handle_command") :
                \E j \in {i + 1, i + 2} :
                    /\ j <= Len(log)
                    /\ log[j].ev = "check_environment"
                    /\ log[j].depth = log[i].depth
                    /\ \A k \in (i + 1)..(j - 1) : log[k].ev = "warn_ignored_only"
        /\ \A i \in 1..Len(log) :
                log[i].ev \in WorkEvents =>
                    \E j \in 1..(i - 1) : log[j].ev = "check_environment"
        /\ TopCommand \in {"Unit", "Integration"} => GuardCount = 1
        /\ TopCommand = "All" => GuardCount \in 1..3
        /\ (TopCommand = "All" /\ status = "Exit1") => GuardCount = 1
        /\ (TopCommand = "All" /\ status = "Err") => GuardCount \in {2, 3}
        /\ (TopCommand = "All" /\ status = "Ok") => GuardCount = 3
    /\ VulnInvoked => GuardCount = 0

C2_Witness ==
    /\ TestInvoked
    /\ TopCommand = "All" /\ TopArgs.target = "Crates"
    /\ Len(world.crates) = 2
    /\ status = "Ok"
    /\ GuardCount = 3

----------------------------------------------------------------------------
(* C3 *)

\* the re-entries of handle_command made by the composite sub-command
SubEntries ==
    SelectSeq(log, LAMBDA e : e.ev = "handle_command" /\ e.depth > 1)

\* the functions of the Unit phase and of the Integration phase
UnitFns == {"run_unit", "run_unit_test"}

IntegrationFns == {"run_integration", "run_integration_test"}

\* an external invocation of the Unit phase has failed
UnitFailed ==
    \E i \in 1..Len(log) :
        /\ log[i].ev \in {"process", "run_process_for_workspace"}
        /\ log[i].fn \in UnitFns
        /\ ~log[i].ok

\* C3: the test sub-command All re-enters handle_command for Unit and then
\* for Integration, never for All, each time with the original arguments
\* except the sub-command; when the Unit phase fails, Integration is never
\* started (no event of the Integration phase) and the failure is returned.
C3_AllIsUnitThenIntegration ==
    (TestInvoked /\ TopCommand = "All") =>
        /\ IsPrefix([i \in 1..Len(SubEntries) |-> SubEntries[i].args.command[1]],
                    <<"Unit", "Integration">>)
        /\ \A i \in 1..Len(SubEntries) :
                /\ SubEntries[i].depth = 2
                /\ SubEntries[i].env = TopEnv
                /\ SubEntries[i].args =
                      [TopArgs EXCEPT !.command = SubEntries[i].args.command]
        /\ \A i, j \in 1..Len(log) :
                (/\ log[i].ev \in WorkEvents /\ log[i].fn \in IntegrationFns
                 /\ log[j].ev \in WorkEvents /\ log[j].fn \in UnitFns) => j < i
        /\ status = "Ok" => Len(SubEntries) = 2
        /\ UnitFailed =>
                /\ Len(SubEntries) = 1
                /\ \A i \in 1..Len(log) :
                        log[i].ev \in WorkEvents => log[i].fn \notin IntegrationFns
                /\ status \in {"running", "Err"}

C3_Witness ==
    /\ TestInvoked
    /\ TopCommand = "All" /\ TopArgs.target = "Crates"
    /\ TopArgs.force /\ TopEnv = "Production"
    /\ Len(world.crates) = 2
    /\ UnitFailed
    /\ status = "Err"

----------------------------------------------------------------------------
(* C4 *)

\* the targets run_unit (or run_integration) was entered with, in order
RunTargetsOf(fn) ==
    LET runs == SelectSeq(log, LAMBDA e : e.ev = "run" /\ e.fn = fn)
    IN  [i \in 1..Len(runs) |-> runs[i].target]

\* the member kinds run_unit (or run_integration) asked the discovery for
DiscoveredKindsOf(fn) ==
    LET asked == SelectSeq(log, LAMBDA e :
                     e.ev = "get_workspace_members" /\ e.fn = fn)
    IN  [i \in 1..Len(asked) |-> asked[i].kind]

\* the frames of run_unit / run_integration on the call stack
RunFramesOnStack ==
    {i \in 1..Len(stack) : stack[i].fn \in {"run_unit", "run_integration"}}

\* the phases a finished sub-command has run
PhasesOf(c) ==
    CASE c = "Unit" -> {"run_unit"}
      [] c = "Integration" -> {"run_integration"}
      [] c = "All" -> {"run_unit", "run_integration"}

\* C4: with target AllPackages, run_unit and run_integration process Crates
\* and then Examples (stopping early only on a failure), never invoke the
\* whole workspace, never re-enter the AllPackages branch, and nest one
\* level only.
C4_AllPackagesOneLevel ==
    (TestInvoked /\ TopArgs.target = "AllPackages") =>
        /\ Positions("run_process_for_workspace") = {}
        /\ \A fn \in {"run_unit", "run_integration"} :
                /\ IsPrefix(RunTargetsOf(fn), <<"AllPackages", "Crates", "Examples">>)
                /\ IsPrefix(DiscoveredKindsOf(fn), <<"Crate", "Example">>)
        /\ Cardinality(RunFramesOnStack) <= 2
        /\ status = "Ok" =>
                \A fn \in PhasesOf(TopCommand) :
                    /\ RunTargetsOf(fn) = <<"AllPackages", "Crates", "Examples">>
                    /\ DiscoveredKindsOf(fn) = <<"Crate", "Example">>

C4_Witness ==
    /\ TestInvoked
    /\ TopCommand = "Integration" /\ TopArgs.target = "AllPackages"
    /\ Len(world.crates) = 2 /\ Len(world.examples) = 1
    /\ Len(Events("process")) = 3
    /\ status = "Ok"

----------------------------------------------------------------------------
(* C5 *)

\* the members the per-member runner was called for, in order
CalledMembers ==
    LET calls == Events("member_call")
    IN  [i \in 1..Len(calls) |-> calls[i].member]

\* the packages an external toolchain process was issued for, in order
SpawnedPackages ==
    LET spawned == Events("process")
    IN  [i \in 1..Len(spawned) |-> spawned[i].package]

\* the member passes the exclude and only filters of the command line
Kept(member) ==
    /\ \A i \in 1..Len(TopArgs.exclude) : TopArgs.exclude[i] # member
    /\ TopArgs.only # <<>> =>
            \E i \in 1..Len(TopArgs.only) : TopArgs.only[i] = member

\* C5: for target Crates or Examples and sub-command Unit or Integration,
\* discovery returns the full member list whatever exclude and only are; the
\* per-member runner is called for the members in discovery order with
\* exclude and only unchanged (for all of them when the command succeeds);
\* a process is issued, inside that call, exactly for the called members
\* that are not excluded and, when only is non-empty, are in only.
C5_FilterInsideMemberCall ==
    (/\ TestInvoked
     /\ TopArgs.target \in {"Crates", "Examples"}
     /\ TopCommand \in {"Unit", "Integration"}) =>
        LET discovered == IF TopArgs.target = "Crates" THEN world.crates
                                                       ELSE world.examples
            runner == IF TopCommand = "Unit" THEN "run_unit_test"
                                             ELSE "run_integration_test"
        IN  /\ Len(Events("get_workspace_members")) <= 1
            /\ \A i \in Positions("get_workspace_members") :
                    log[i].members = discovered
            /\ IsPrefix(CalledMembers, discovered)
            /\ \A i \in Positions("member_call") :
                    /\ log[i].fn = runner
                    /\ log[i].exclude = TopArgs.exclude
                    /\ log[i].only = TopArgs.only
            /\ IsPrefix(SpawnedPackages, SelectSeq(CalledMembers, Kept))
            /\ \A i \in Positions("process") :
                    /\ i > 2
                    /\ log[i - 1].ev = "run_process_for_package"
                    /\ log[i - 1].package = log[i].package
                    /\ log[i - 2].ev = "member_call"
                    /\ log[i - 2].member = log[i].package
            /\ status \in {"Ok", "Err"} =>
                    SpawnedPackages = SelectSeq(CalledMembers, Kept)
            /\ status = "Ok" =>
                    /\ CalledMembers = discovered
                    /\ SpawnedPackages = SelectSeq(discovered, Kept)

C5_Witness ==
    /\ TestInvoked
    /\ TopCommand = "Unit" /\ TopArgs.target = "Crates"
    /\ world.crates = <<"core", "io">>
    /\ TopArgs.exclude = <<"io">> /\ TopArgs.only = <<>>
    /\ \E i \in Positions("get_workspace_members") :
            log[i].members = <<"core", "io">>
    /\ CalledMembers = <<"core", "io">>
    /\ SpawnedPackages = <<"core">>
    /\ status = "Ok"

----------------------------------------------------------------------------
(* C6 *)

\* the platform triples a sanitizer supports, as a set
SupportedSet(s) ==
    {supported_targets(s)[j] : j \in 1..Len(supported_targets(s))}

\* C6: is_target_supported is true exactly when some installed string
\* parses (surrounding whitespace aside) to a triple the sanitizer supports:
\* true whenever the canonical name of a supported triple is installed,
\* false for the empty list and for lists of empty, blank or unrecognized
\* strings; it always yields a boolean.
C6_SupportedIffInstalled ==
    probe.fn = "is_target_supported" =>
        LET sup == SupportedSet(probe.sanitizer)
            inst == probe.installed
        IN  /\ probe.result \in BOOLEAN
            /\ probe.result <=>
                    \E i \in 1..Len(inst) :
                        \E t \in sup : from_str(trim(inst[i])) = Some(t)
            /\ (\E i \in 1..Len(inst) :
                    \E t \in sup : inst[i] = target_to_string(t)) => probe.result
            /\ (\A i \in 1..Len(inst) :
                    inst[i] \in {"", " ", "x86_64-pc-windows-msvc"}) => ~probe.result
            /\ (/\ "X8664UnknownLinuxGnu" \in sup
                /\ \E i \in 1..Len(inst) : inst[i] = " x86_64-unknown-linux-gnu")
                    => probe.result
            /\ "Unknown" \notin sup

C6_Witness ==
    /\ probe.fn = "is_target_supported"
    /\ probe.sanitizer = "Memory"
    /\ probe.installed = <<"aarch64-apple-darwin", "x86_64-unknown-linux-gnu">>
    /\ probe.result = TRUE

----------------------------------------------------------------------------
(* C7 *)

\* C7: for each of the nine named Target variants, Target::from_str of the
\* variant's display string is Some of that variant.
C7_RoundTrip ==
    (probe.fn = "round_trip" /\ probe.target \in NamedTargets) =>
        probe.parsed = <<probe.target>>

C7_Witness ==
    /\ probe.fn = "round_trip"
    /\ probe.target = "X8664LinuxAndroid"
    /\ probe.shown = "x86_64-linux-android"
    /\ probe.parsed = <<"X8664LinuxAndroid">>

----------------------------------------------------------------------------
(* C8 *)

\* the decimal digits
Digit(d) ==
    CASE d = 0 -> "0" [] d = 1 -> "1" [] d = 2 -> "2" [] d = 3 -> "3"
      [] d = 4 -> "4" [] d = 5 -> "5" [] d = 6 -> "6" [] d = 7 -> "7"
      [] d = 8 -> "8" [] d = 9 -> "9"

\* the decimal numeral of a natural number
RECURSIVE Decimal(_)
Decimal(n) == IF n < 10 THEN Digit(n) ELSE Decimal(n \div 10) \o Digit(n % 10)

\* the names of a non-empty list separated by commas
RECURSIVE CommaSeparated(_)
CommaSeparated(names) ==
    IF Len(names) = 1 THEN names[1]
    ELSE CommaSeparated(SubSeq(names, 1, Len(names) - 1))
            \o "," \o names[Len(names)]

\* C8: push_optional_args leaves the skeleton in place and appends, in this
\* order: `--jobs <n>` iff jobs is set; `--features <comma-joined list>` iff
\* features is set and non-empty; `--no-default-features` iff that flag is
\* set; always `--` and `--color=always`; `--test-threads <n>` iff threads
\* is set; `--nocapture` iff no_capture is set.
C8_ComposedTokens ==
    probe.fn = "push_optional_args" =>
        LET a == probe.args
            out == probe.cmd_args
            jobs == IF a.jobs # None
                    THEN <<"--jobs", Decimal(a.jobs[1])>> ELSE <<>>
            features == IF a.features # None /\ a.features[1] # <<>>
                        THEN <<"--features", CommaSeparated(a.features[1])>>
                        ELSE <<>>
            no_default == IF a.no_default_features
                          THEN <<"--no-default-features">> ELSE <<>>
            threads == IF a.threads # None
                       THEN <<"--test-threads", Decimal(a.threads[1])>>
                       ELSE <<>>
            no_capture == IF a.no_capture THEN <<"--nocapture">> ELSE <<>>
        IN  /\ out = probe.skeleton \o jobs \o features \o no_default
                        \o <<"--", "--color=always">> \o threads \o no_capture
            /\ a.jobs = <<4>> =>
                    \E i \in 1..(Len(out) - 1) :
                        out[i] = "--jobs" /\ out[i + 1] = "4"
            /\ a.features = <<<<>>>> =>
                    \A i \in 1..Len(out) : out[i] # "--features"
            /\ a.no_capture => out[Len(out)] = "--nocapture"

C8_Witness ==
    /\ probe.fn = "push_optional_args"
    /\ probe.skeleton = <<"test", "--workspace", "--test", "*", "--color", "always">>
    /\ probe.args.jobs = <<4>>
    /\ probe.args.features = <<<<"std", "cli">>>>
    /\ probe.cmd_args =
          <<"test", "--workspace", "--test", "*", "--color", "always",
            "--jobs", "4", "--features", "std,cli", "--no-default-features",
            "--", "--color=always", "--test-threads", "2", "--nocapture">>

----------------------------------------------------------------------------
(* C10 *)

\* C10: when the toolchain is not nightly, every vulnerabilities
\* sub-command only asks for the channel and emits the diagnostic: nothing
\* is installed, no component is added, the installed targets are not
\* queried, no process is run, and the command returns success.
C10_NotNightlyIsNoOp ==
    (VulnInvoked /\ ~world.nightly) =>
        /\ \A i \in 2..Len(log) :
                log[i].ev \in {"is_current_toolchain_nightly", "CARGO_NIGHTLY_MSG"}
        /\ \A i \in Positions("is_current_toolchain_nightly") :
                /\ ~log[i].result
                /\ i < Len(log)
                /\ log[i + 1].ev = "CARGO_NIGHTLY_MSG"
        /\ status \in {"running", "Ok"}
        /\ status = "Ok" => Positions("CARGO_NIGHTLY_MSG") # {}

C10_Witness ==
    /\ VulnInvoked
    /\ ~world.nightly
    /\ log[1].command = "All"
    /\ Len(Events("CARGO_NIGHTLY_MSG")) = 6
    /\ status = "Ok"

----------------------------------------------------------------------------
(* C11 *)

\* the members a per-member runner was called for, in order
CalledBy(runner) ==
    LET calls == SelectSeq(log, LAMBDA e :
                     e.ev = "member_call" /\ e.fn = runner)
    IN  [i \in 1..Len(calls) |-> calls[i].member]

\* the members the target of the command resolves to, in processing order
MembersInOrder ==
    CASE TopArgs.target = "Crates" -> world.crates
      [] TopArgs.target = "Examples" -> world.examples
      [] TopArgs.target = "AllPackages" -> world.crates \o world.examples

\* a process issued for a member has failed
MemberFailed ==
    \E i \in Positions("process") : ~log[i].ok

\* C11: for target Crates, Examples or AllPackages the per-member runner is
\* called for one member after another in discovery order (Crates before
\* Examples in the fan-out), each call ending before the next begins; once
\* the process of a member has failed nothing more is done (no later runner
\* call, no later target, no discovery) and the command returns the failure;
\* an empty member list makes no call and the command returns success.
C11_FailFastAcrossMembers ==
    (TestInvoked /\ TopArgs.target \in {"Crates", "Examples", "AllPackages"}) =>
        /\ \A runner \in {"run_unit_test", "run_integration_test"} :
                IsPrefix(CalledBy(runner), MembersInOrder)
        /\ \A i \in Positions("member_call") :
                \/ i = Len(log)
                \/ /\ log[i + 1].ev = "run_process_for_package"
                   /\ log[i + 1].package = log[i].member
        /\ \A i \in Positions("process") :
                ~log[i].ok => i = Len(log)
        /\ MemberFailed => status \in {"running", "Err"}
        /\ (status = "Err") => MemberFailed
        /\ (MembersInOrder = <<>> /\ Finished) =>
                /\ Positions("member_call") = {}
                /\ Positions("process") = {}
                /\ \/ status = "Ok"
                   \/ status = "Exit1" /\ TopEnv = "Production" /\ ~TopArgs.force

C11_Witness ==
    /\ TestInvoked
    /\ TopCommand = "Unit" /\ TopArgs.target = "AllPackages"
    /\ Len(world.crates) = 2 /\ Len(world.examples) = 1
    /\ TopArgs.exclude = <<>> /\ TopArgs.only = <<>>
    /\ CalledBy("run_unit_test") = <<world.crates[1]>>
    /\ MemberFailed
    /\ status = "Err"

----------------------------------------------------------------------------
(* C12 *)

\* the steps of the vulnerabilities command that were started, in order
StartedSteps ==
    LET asked == Events("is_current_toolchain_nightly")
    IN  [i \in 1..Len(asked) |-> asked[i].who]

\* the positions of log at which a step of the command failed
FailedPositions ==
    {i \in 1..Len(log) :
        \/ /\ log[i].ev \in {"ensure_cargo_crate_is_installed",
                             "rustup_add_component", "careful_setup",
                             "careful_test"}
           /\ ~log[i].ok
        \/ /\ log[i].ev = "sanitizer_process"
           /\ log[i].outcome # "success"}

====
